---- MODULE Spec2Model ----
(***************************************************************************)
(* club: named clasp remotes kept in the `__club__` object of .clasp.json. *)
(* Model of src/main.rs: the manifest file, the validated newtypes, the    *)
(* list/init/set/remove/rename commands and the swap-push-restore sequence *)
(* of `club push`.                                                         *)
(*                                                                         *)
(* Strings that the program inspects (remote names, remote ids, scriptId)  *)
(* are run-length encoded: a sequence of <<character, count>> runs, so     *)
(* "aab" is << <<"a", 2>>, <<"b", 1>> >>.  Strings it only passes through  *)
(* (rootDir, parentId items) are TLA+ strings.                             *)
(***************************************************************************)
EXTENDS Integers, Sequences, FiniteSets, TLC

VARIABLES
    disk,       \* contents of .clasp.json: NoFile, Garbage or a JSON object
    pc,         \* "idle", or "clasp" while push_to_remote is at Command::status()
    config,     \* club_push: the ClaspConfig loaded at line 405
    queue,      \* club_push: entries the `for` loop of line 416 has not reached
    last,       \* the command that ran last, its arguments and what main() saw
    prev,       \* the manifest file as it was when that command started
    target,     \* push_to_remote: its remote_name and remote_id arguments
    log,        \* club_push: per `clasp push` that ran, the remote id, the
                \* scriptId it found in the file, and whether it exited with 0
    cpc,        \* concurrent invocations: position of each process in club_set
    cloaded,    \* concurrent invocations: each process's `config` (line 304)
    cargs,      \* concurrent invocations: each process's SetCommand
    cres,       \* concurrent invocations: what each process returned
    rtIn,       \* round trip: the ClaspConfig handed to write_clasp_config
    rtFile,     \* round trip: the file written from it
    rtOut       \* round trip: what get_clasp_config read back

seqVars == <<pc, config, queue, target, last, prev, log>>
concVars == <<cpc, cloaded, cargs, cres>>
rtVars == <<rtIn, rtFile, rtOut>>
vars == <<disk, pc, config, queue, target, last, prev, log,
          cpc, cloaded, cargs, cres, rtIn, rtFile, rtOut>>

----------------------------------------------------------------------------
(* Bounds of the model                                                     *)

\* largest remote table of a round-tripped ClaspConfig
MaxRemotes == 2
\* largest remote table `club set` builds when a fourth name is in play
MaxTable == 3
\* longest parentId array of a round-tripped ClaspConfig
MaxParents == 2

----------------------------------------------------------------------------
(* Characters and strings                                                  *)

\* the class [a-zA-Z0-9-_] of both regular expressions
AllowedChars ==
    {"a","b","c","d","e","f","g","h","i","j","k","l","m",
     "n","o","p","q","r","s","t","u","v","w","x","y","z",
     "A","B","C","D","E","F","G","H","I","J","K","L","M",
     "N","O","P","Q","R","S","T","U","V","W","X","Y","Z",
     "0","1","2","3","4","5","6","7","8","9","-","_"}

\* the repetition count of the RemoteId expression
IdLen == 57

\* the string of n characters c
Rep(c, n) == << <<c, n>> >>

RECURSIVE Count(_, _, _)
\* number of characters in runs i..j of s
Count(s, i, j) == IF i > j THEN 0 ELSE s[i][2] + Count(s, i + 1, j)

StrLen(s) == Count(s, 1, Len(s))

\* Regex::is_match is an unanchored search: the pattern [..]{n} matches when
\* SOME n consecutive characters of the value are in the class, that is when
\* some stretch of runs of class characters holds at least n characters.
HasRun(s, n) ==
    \E i \in 1..Len(s) : \E j \in i..Len(s) :
        /\ \A k \in i..j : s[k][1] \in AllowedChars
        /\ Count(s, i, j) >= n

\* RemoteId::try_from(value).is_ok()
RemoteIdOk(s) == HasRun(s, IdLen)

\* RemoteName::try_from(value).is_ok()  ("+" is one or more)
RemoteNameOk(s) == HasRun(s, 1)

----------------------------------------------------------------------------
(* IndexMap<RemoteName, RemoteId>: a sequence of <<name, id>> pairs with   *)
(* unique names.                                                           *)

Keys(m) == {m[i][1] : i \in 1..Len(m)}

ContainsKey(m, k) == k \in Keys(m)

IndexOf(m, k) == CHOOSE i \in 1..Len(m) : m[i][1] = k

Get(m, k) == m[IndexOf(m, k)][2]

\* IndexMap::insert: a present key keeps its position and takes the new
\* value, an absent key is appended
IndexMapInsert(m, k, v) ==
    IF ContainsKey(m, k)
    THEN [m EXCEPT ![IndexOf(m, k)] = <<k, v>>]
    ELSE Append(m, <<k, v>>)

\* a plausible slip: IndexMap::swap_remove, which fills the hole with the
\* last entry
SwapRemove(m, k) ==
    IF ~ContainsKey(m, k) THEN m
    ELSE LET i == IndexOf(m, k)
             n == Len(m)
         IN  IF i = n THEN SubSeq(m, 1, n - 1)
             ELSE SubSeq([m EXCEPT ![i] = m[n]], 1, n - 1)

\* IndexMap::shift_remove: the entries after the removed one move up
ShiftRemove(m, k) == SelectSeq(m, LAMBDA e : e[1] # k)

----------------------------------------------------------------------------
(* serde_json::Value of the manifest, and ClaspConfig                      *)

\* Option<IndexMap<RemoteName, RemoteId>>
NoRemotes == [some |-> FALSE, map |-> <<>>]
Some(m) == [some |-> TRUE, map |-> m]

\* the file: kind is "object" for a JSON object that has the three required
\* members, "NoFile" when .clasp.json does not exist, "Garbage" when it is
\* not JSON or a required member is missing or mistyped
Object(rootDir, scriptId, parentId, club) ==
    [kind |-> "object", rootDir |-> rootDir, scriptId |-> scriptId,
     parentId |-> parentId, club |-> club]
NoFile == [kind |-> "NoFile", rootDir |-> "", scriptId |-> <<>>,
           parentId |-> <<>>, club |-> NoRemotes]
Garbage == [kind |-> "Garbage", rootDir |-> "", scriptId |-> <<>>,
            parentId |-> <<>>, club |-> NoRemotes]

\* serde_json::Map::insert behind `remotes_json[key] = value`, and the order
\* in which serde_json::from_str yields the members of an object: members
\* are kept in insertion (document) order
JsonObjectInsert(obj, k, v) ==
    IF \E i \in 1..Len(obj) : obj[i][1] = k
    THEN [obj EXCEPT ![CHOOSE i \in 1..Len(obj) : obj[i][1] = k] = <<k, v>>]
    ELSE Append(obj, <<k, v>>)

RECURSIVE RemotesToJson(_, _)
\* the loop of lines 238-240 over the IndexMap, into remotes_json
RemotesToJson(m, obj) ==
    IF m = <<>> THEN obj
    ELSE RemotesToJson(Tail(m), JsonObjectInsert(obj, Head(m)[1], Head(m)[2]))

\* a plausible slip: an empty table is not written at all
ValueFromConfig_SkipEmpty(c) ==
    Object(c.root_dir, c.script_id, c.parent_ids,
           IF c.club_remotes.some /\ c.club_remotes.map # <<>>
           THEN Some(RemotesToJson(c.club_remotes.map, <<>>))
           ELSE NoRemotes)

\* impl TryFrom<ClaspConfig> for Value
ValueFromConfig(c) ==
    Object(c.root_dir, c.script_id, c.parent_ids,
           IF c.club_remotes.some
           THEN Some(RemotesToJson(c.club_remotes.map, <<>>))
           ELSE NoRemotes)

RECURSIVE RemotesFromJson(_, _)
\* the loop of lines 204-215 over the members of "__club__"
RemotesFromJson(obj, m) ==
    IF obj = <<>> THEN m
    ELSE RemotesFromJson(Tail(obj), IndexMapInsert(m, Head(obj)[1], Head(obj)[2]))

\* the unwrap() calls of lines 206 and 213: a stored name or id that does
\* not validate panics
StoredRemotesPanic(v) ==
    \E i \in 1..Len(v.club.map) :
        ~RemoteNameOk(v.club.map[i][1]) \/ ~RemoteIdOk(v.club.map[i][2])

\* impl TryFrom<Value> for ClaspConfig, for an object that has the three
\* required members and whose stored remotes validate
ConfigFromValue(v) ==
    [root_dir |-> v.rootDir, script_id |-> v.scriptId, parent_ids |-> v.parentId,
     club_remotes |-> IF v.club.some THEN Some(RemotesFromJson(v.club.map, <<>>))
                      ELSE NoRemotes]

\* get_clasp_config: "Ok", the ClubError it returns, or "Panic"
LoadError(d) ==
    IF d.kind = "NoFile" THEN "ManifestNotFound"
    ELSE IF d.kind = "Garbage" THEN "ManifestReadFail"
    ELSE IF StoredRemotesPanic(d) THEN "Panic"
    ELSE "Ok"

\* get_clasp_config: the ClaspConfig it returns when LoadError is "Ok"
get_clasp_config(d) == ConfigFromValue(d)

\* write_clasp_config: the new contents of the file
write_clasp_config(c) == ValueFromConfig(c)

\* the lines club_list prints: name, id, and whether the name is in bold
ListLines(c) ==
    [i \in 1..Len(c.club_remotes.map) |->
        [name |-> c.club_remotes.map[i][1], id |-> c.club_remotes.map[i][2],
         bold |-> (c.club_remotes.map[i][1] =
                      << <<"m", 1>>, <<"a", 1>>, <<"i", 1>>, <<"n", 1>> >>)]]

----------------------------------------------------------------------------
(* Inputs: command-line arguments and initial manifests                    *)

Main == << <<"m", 1>>, <<"a", 1>>, <<"i", 1>>, <<"n", 1>> >>

\* accepted by RemoteName::try_from: "main", "a" and "b!"; rejected: the
\* empty string
NameInputs == {Main, Rep("a", 1), << <<"b", 1>>, <<"!", 1>> >>, <<>>}

IdA == Rep("x", IdLen)
IdLong == Rep("x", IdLen + 1)
\* IdLen characters, the middle one outside the class
IdHole == << <<"x", IdLen \div 2>>, <<"!", 1>>, <<"x", IdLen - 1 - IdLen \div 2>> >>

IdInputs == {IdA, IdLong, IdHole}

\* a scriptId that is no script id at all
ScriptIdShort == << <<"a", 1>>, <<"b", 1>>, <<"c", 1>> >>

\* the script id of the project clasp created
IdB == Rep("y", IdLen)

\* scriptId of the manifest before `club init`: a script id, or what
\* RemoteId::try_from accepts or rejects besides
ScriptIds == {IdB, IdLong, ScriptIdShort}

\* a hand-edited manifest whose stored remote name does not validate
BadStored == Object("src", IdB, <<"p1", "p2">>, Some(<< <<Rep("!", 1), IdA>> >>))

\* a clasp project before `club init`, a missing or unreadable manifest, and
\* the hand-edited one
InitialManifests ==
    {Object("src", sid, <<"p1", "p2">>, NoRemotes) : sid \in ScriptIds}
        \cup {NoFile, Garbage, BadStored}

EmptyConfig == [root_dir |-> "", script_id |-> <<>>, parent_ids |-> <<>>,
                club_remotes |-> NoRemotes]

\* what main() observed of a command: Ok(()) or the error it prints
Cmd(c, a, b, all, res, out) ==
    [cmd |-> c, a |-> a, b |-> b, all |-> all, res |-> res, out |-> out]

----------------------------------------------------------------------------
(* The commands, as functions of the loaded manifest                       *)

\* club_set after line 304: the error returned, or "Ok"
SetError(c, name, id) ==
    IF ~RemoteNameOk(name) THEN "InvalidRemoteName"
    ELSE IF ~RemoteIdOk(id) THEN "InvalidRemoteId"
    ELSE IF ~c.club_remotes.some THEN "ClubNotSetup"
    ELSE "Ok"

\* club_set lines 316-322: new_config
SetConfig(c, name, id) ==
    [c EXCEPT !.club_remotes = Some(IndexMapInsert(c.club_remotes.map, name, id))]

\* club_init lines 335-352: new_config
InitConfig(c) ==
    [c EXCEPT !.club_remotes =
        Some(IF RemoteIdOk(c.script_id)
             THEN IndexMapInsert(<<>>, Main, c.script_id)
             ELSE <<>>)]

\* club_remove after line 368: the error returned, or "Ok"
RemoveError(c, name) ==
    IF ~RemoteNameOk(name) THEN "InvalidRemoteName"
    ELSE IF ~c.club_remotes.some THEN "ClubNotSetup"
    ELSE IF ~ContainsKey(c.club_remotes.map, name) THEN "RemoteNotFound"
    ELSE "Ok"

\* a plausible slip: a table that became empty is dropped
RemoveConfig_DropEmpty(c, name) ==
    IF ShiftRemove(c.club_remotes.map, name) = <<>>
    THEN [c EXCEPT !.club_remotes = NoRemotes]
    ELSE [c EXCEPT !.club_remotes = Some(ShiftRemove(c.club_remotes.map, name))]

\* club_remove lines 372-378: new_config
RemoveConfig(c, name) ==
    [c EXCEPT !.club_remotes = Some(ShiftRemove(c.club_remotes.map, name))]

\* club_rename after line 384: the error returned, or "Ok"
RenameError(c, old, new) ==
    IF ~RemoteNameOk(old) THEN "InvalidRemoteName"
    ELSE IF ~RemoteNameOk(new) THEN "InvalidRemoteName"
    ELSE IF ~c.club_remotes.some THEN "ClubNotSetup"
    ELSE IF ContainsKey(c.club_remotes.map, new) THEN "RemoteAlreadyExists"
    ELSE IF ~ContainsKey(c.club_remotes.map, old) THEN "RemoteNotFound"
    ELSE "Ok"

\* a plausible slip: the entry is renamed where it stands
RenameConfig_InPlace(c, old, new) ==
    [c EXCEPT !.club_remotes =
        Some([c.club_remotes.map EXCEPT ![IndexOf(c.club_remotes.map, old)] =
                 <<new, Get(c.club_remotes.map, old)>>])]

\* club_rename lines 392-399: new_config
RenameConfig(c, old, new) ==
    [c EXCEPT !.club_remotes =
        Some(IndexMapInsert(ShiftRemove(c.club_remotes.map, old), new,
                            Get(c.club_remotes.map, old)))]

\* club_push lines 406-423: the error returned before any push_to_remote, or
\* "Ok".  remote is <<>> for None and <<name>> for Some(name).
PushError(c, remote, all) ==
    IF ~c.club_remotes.some THEN "ClubNotSetup"
    ELSE IF remote # <<>> /\ all THEN "BothRemoteAndAllPassed"
    ELSE IF Len(c.club_remotes.map) = 0 THEN "NoRemotesAvailable"
    ELSE IF all THEN "Ok"
    ELSE LET name == IF remote = <<>> THEN Main ELSE remote[1]
         IN  IF ~RemoteNameOk(name) THEN "InvalidRemoteName"
             ELSE IF ~ContainsKey(c.club_remotes.map, name) THEN "RemoteNotFound"
             ELSE "Ok"

\* club_push: the entries it hands to push_to_remote, in order
PushTargets(c, remote, all) ==
    IF all THEN c.club_remotes.map
    ELSE LET name == IF remote = <<>> THEN Main ELSE remote[1]
         IN  << <<name, Get(c.club_remotes.map, name)>> >>

\* push_to_remote lines 434-435: config_copy
SwappedConfig(c, remote_id) == [c EXCEPT !.script_id = remote_id]

\* a plausible slip: the restore writes config_copy
RestoredConfig_Copy(c, config_copy) == config_copy

\* push_to_remote line 447: the restore writes `config`, not config_copy
RestoredConfig(c, config_copy) == c

\* push_to_remote lines 441-445: return_val
ReturnVal(success) == IF success THEN "Ok" ELSE "ClaspError(clasp push failed)"

----------------------------------------------------------------------------
(* One invocation at a time                                                *)

NoTarget == << <<>>, <<>> >>
NoCmd == Cmd("none", <<>>, <<>>, FALSE, "Ok", <<>>)
Procs == {1, 2}

IdleConc ==
    /\ cpc = [p \in Procs |-> "idle"]
    /\ cloaded = [p \in Procs |-> EmptyConfig]
    /\ cargs = [p \in Procs |-> NoTarget]
    /\ cres = [p \in Procs |-> "Ok"]

IdleRoundTrip ==
    /\ rtIn = EmptyConfig
    /\ rtFile = NoFile
    /\ rtOut = <<>>

IdleSeq ==
    /\ pc = "idle"
    /\ config = EmptyConfig
    /\ queue = <<>>
    /\ target = NoTarget
    /\ last = NoCmd
    /\ log = <<>>

Init ==
    /\ disk \in InitialManifests
    /\ prev = disk
    /\ IdleSeq
    /\ IdleConc
    /\ IdleRoundTrip

\* a command that returns without running clasp: what is left of the process
\* and of the file
Returns(cmd, d) ==
    /\ pc = "idle"
    /\ prev' = disk
    /\ last' = cmd
    /\ disk' = d
    /\ log' = <<>>
    /\ UNCHANGED <<pc, config, queue, target>>
    /\ UNCHANGED concVars
    /\ UNCHANGED rtVars

club_list ==
    LET e == LoadError(disk)
        c == get_clasp_config(disk)
    IN  IF e # "Ok" THEN Returns(Cmd("list", <<>>, <<>>, FALSE, e, <<>>), disk)
        ELSE IF ~c.club_remotes.some
        THEN Returns(Cmd("list", <<>>, <<>>, FALSE, "ClubNotSetup", <<>>), disk)
        ELSE Returns(Cmd("list", <<>>, <<>>, FALSE, "Ok", ListLines(c)), disk)

club_set(name, id) ==
    LET e == LoadError(disk)
        c == get_clasp_config(disk)
    IN  IF e # "Ok" THEN Returns(Cmd("set", name, id, FALSE, e, <<>>), disk)
        ELSE IF SetError(c, name, id) # "Ok"
        THEN Returns(Cmd("set", name, id, FALSE, SetError(c, name, id), <<>>), disk)
        ELSE Returns(Cmd("set", name, id, FALSE, "Ok", <<>>),
                     write_clasp_config(SetConfig(c, name, id)))

club_init ==
    LET e == LoadError(disk)
        c == get_clasp_config(disk)
    IN  IF e # "Ok" THEN Returns(Cmd("init", <<>>, <<>>, FALSE, e, <<>>), disk)
        ELSE IF c.club_remotes.some
        THEN Returns(Cmd("init", <<>>, <<>>, FALSE, "ClubAlreadySetup", <<>>), disk)
        ELSE Returns(Cmd("init", <<>>, <<>>, FALSE, "Ok", <<>>),
                     write_clasp_config(InitConfig(c)))

club_remove(name) ==
    LET e == LoadError(disk)
        c == get_clasp_config(disk)
    IN  IF e # "Ok" THEN Returns(Cmd("remove", name, <<>>, FALSE, e, <<>>), disk)
        ELSE IF RemoveError(c, name) # "Ok"
        THEN Returns(Cmd("remove", name, <<>>, FALSE, RemoveError(c, name), <<>>), disk)
        ELSE Returns(Cmd("remove", name, <<>>, FALSE, "Ok", <<>>),
                     write_clasp_config(RemoveConfig(c, name)))

club_rename(old, new) ==
    LET e == LoadError(disk)
        c == get_clasp_config(disk)
    IN  IF e # "Ok" THEN Returns(Cmd("rename", old, new, FALSE, e, <<>>), disk)
        ELSE IF RenameError(c, old, new) # "Ok"
        THEN Returns(Cmd("rename", old, new, FALSE, RenameError(c, old, new), <<>>), disk)
        ELSE Returns(Cmd("rename", old, new, FALSE, "Ok", <<>>),
                     write_clasp_config(RenameConfig(c, old, new)))

club_login ==
    \E r \in {"Ok", "ClaspError(clasp login failed)", "ClaspError(os error)"} :
        Returns(Cmd("login", <<>>, <<>>, FALSE, r, <<>>), disk)

\* club_push up to the first Command::status() of push_to_remote: the checks
\* of lines 405-423, then lines 433-436 for the first target
club_push(remote, all) ==
    LET e == LoadError(disk)
        c == get_clasp_config(disk)
    IN  IF e # "Ok" THEN Returns(Cmd("push", remote, <<>>, all, e, <<>>), disk)
        ELSE IF PushError(c, remote, all) # "Ok"
        THEN Returns(Cmd("push", remote, <<>>, all, PushError(c, remote, all), <<>>), disk)
        ELSE /\ pc = "idle"
             /\ pc' = "clasp"
             /\ prev' = disk
             /\ config' = c
             /\ target' = Head(PushTargets(c, remote, all))
             /\ queue' = Tail(PushTargets(c, remote, all))
             /\ disk' = write_clasp_config(
                            SwappedConfig(c, Head(PushTargets(c, remote, all))[2]))
             /\ last' = Cmd("push", remote, <<>>, all, "Running", <<>>)
             /\ log' = <<>>
             /\ UNCHANGED concVars
             /\ UNCHANGED rtVars

\* Command::status() returned Ok(status): `clasp push` ran with the file as
\* it is now and exited; lines 441-448, and for --all after a success the
\* next iteration of the loop of line 416 up to its Command::status()
ClaspExit(success) ==
    /\ pc = "clasp"
    /\ log' = Append(log, <<target[2], disk.scriptId, success>>)
    /\ IF ReturnVal(success) = "Ok" /\ queue # <<>>
       THEN /\ disk' = write_clasp_config(SwappedConfig(config, Head(queue)[2]))
            /\ target' = Head(queue)
            /\ queue' = Tail(queue)
            /\ UNCHANGED <<pc, config, last>>
       ELSE /\ disk' = write_clasp_config(
                           RestoredConfig(config, SwappedConfig(config, target[2])))
            /\ last' = [last EXCEPT !.res = ReturnVal(success)]
            /\ pc' = "idle"
            /\ config' = EmptyConfig
            /\ queue' = <<>>
            /\ target' = NoTarget
    /\ UNCHANGED prev
    /\ UNCHANGED concVars
    /\ UNCHANGED rtVars

\* Command::status() returned Err(e): clasp could not be started; the `?` of
\* line 440 returns from push_to_remote and from club_push
ClaspSpawnFail ==
    /\ pc = "clasp"
    /\ last' = [last EXCEPT !.res = "ClaspError(os error)"]
    /\ pc' = "idle"
    /\ config' = EmptyConfig
    /\ queue' = <<>>
    /\ target' = NoTarget
    /\ UNCHANGED <<disk, prev, log>>
    /\ UNCHANGED concVars
    /\ UNCHANGED rtVars

Next ==
    \/ club_init
    \/ club_list
    \/ \E name \in NameInputs, id \in IdInputs : club_set(name, id)
    \/ \E name \in NameInputs : club_remove(name)
    \/ \E old \in NameInputs, new \in NameInputs : club_rename(old, new)
    \/ \E name \in NameInputs : club_push(<<name>>, FALSE)
    \/ club_push(<<>>, FALSE)
    \/ club_push(<<>>, TRUE)
    \/ \E name \in NameInputs : club_push(<<name>>, TRUE)
    \/ club_login
    \/ \E success \in BOOLEAN : ClaspExit(success)
    \/ ClaspSpawnFail

Spec == Init /\ [][Next]_vars

----------------------------------------------------------------------------
(* The table commands alone, on a project set up by `club init`, with one  *)
(* more remote name than the table may hold.                               *)

TableNames == NameInputs \cup {Rep("c", 1)}

InitTable ==
    /\ disk = write_clasp_config(InitConfig(get_clasp_config(
                  Object("src", IdB, <<"p1", "p2">>, NoRemotes))))
    /\ prev = disk
    /\ IdleSeq
    /\ IdleConc
    /\ IdleRoundTrip

\* the table has room for name
Fits(name) == ContainsKey(disk.club.map, name) \/ Len(disk.club.map) < MaxTable

NextTable ==
    \/ club_list
    \/ \E name \in TableNames, id \in IdInputs : Fits(name) /\ club_set(name, id)
    \/ \E name \in TableNames : club_remove(name)
    \/ \E old \in TableNames, new \in TableNames : club_rename(old, new)

SpecTable == InitTable /\ [][NextTable]_vars

----------------------------------------------------------------------------
(* Two invocations of `club set` on the same manifest.  Each is a process  *)
(* of its own: it reads the file at line 304 and replaces it at line 324,  *)
(* and nothing orders the two processes between those lines.               *)

\* manifests `club init` leaves behind
InitialisedManifests ==
    {write_clasp_config(InitConfig(get_clasp_config(d))) :
        d \in {m \in InitialManifests : LoadError(m) = "Ok"}}

InitConc ==
    /\ disk \in InitialisedManifests
    /\ prev = disk
    /\ IdleSeq
    /\ IdleConc
    /\ IdleRoundTrip

\* club_set line 304 in process p
SetLoad(p, name, id) ==
    /\ cpc[p] = "idle"
    /\ cargs' = [cargs EXCEPT ![p] = <<name, id>>]
    /\ IF LoadError(disk) # "Ok"
       THEN /\ cpc' = [cpc EXCEPT ![p] = "done"]
            /\ cres' = [cres EXCEPT ![p] = LoadError(disk)]
            /\ UNCHANGED cloaded
       ELSE /\ cpc' = [cpc EXCEPT ![p] = "loaded"]
            /\ cloaded' = [cloaded EXCEPT ![p] = get_clasp_config(disk)]
            /\ UNCHANGED cres
    /\ UNCHANGED disk
    /\ UNCHANGED seqVars
    /\ UNCHANGED rtVars

\* a variant that would close the race: the file is read again, under a
\* lock, when it is replaced
SetStore_Reload(p) ==
    /\ cpc[p] = "loaded"
    /\ cpc' = [cpc EXCEPT ![p] = "done"]
    /\ cres' = [cres EXCEPT ![p] = SetError(get_clasp_config(disk), cargs[p][1], cargs[p][2])]
    /\ IF SetError(get_clasp_config(disk), cargs[p][1], cargs[p][2]) = "Ok"
       THEN disk' = write_clasp_config(
                        SetConfig(get_clasp_config(disk), cargs[p][1], cargs[p][2]))
       ELSE UNCHANGED disk
    /\ UNCHANGED <<cloaded, cargs>>
    /\ UNCHANGED seqVars
    /\ UNCHANGED rtVars

\* club_set lines 306-324 in process p
SetStore(p) ==
    /\ cpc[p] = "loaded"
    /\ cpc' = [cpc EXCEPT ![p] = "done"]
    /\ cres' = [cres EXCEPT ![p] = SetError(cloaded[p], cargs[p][1], cargs[p][2])]
    /\ IF SetError(cloaded[p], cargs[p][1], cargs[p][2]) = "Ok"
       THEN disk' = write_clasp_config(SetConfig(cloaded[p], cargs[p][1], cargs[p][2]))
       ELSE UNCHANGED disk
    /\ UNCHANGED <<cloaded, cargs>>
    /\ UNCHANGED seqVars
    /\ UNCHANGED rtVars

NextConc ==
    \/ \E p \in Procs, name \in NameInputs, id \in IdInputs : SetLoad(p, name, id)
    \/ \E p \in Procs : SetStore(p)

SpecConc == InitConc /\ [][NextConc]_vars

----------------------------------------------------------------------------
(* Saving a ClaspConfig and loading the file again                          *)

ValidNames == {n \in NameInputs : RemoteNameOk(n)}
ValidIds == {i \in IdInputs : RemoteIdOk(i)}

\* the IndexMaps of at most n entries: unique validated names, validated ids
Tables(n) ==
    UNION {{t \in [1..k -> ValidNames \X ValidIds] :
               \A i \in 1..k : \A j \in 1..k : t[i][1] = t[j][1] => i = j}
           : k \in 0..n}

ParentLists(n) == UNION {[1..k -> {"p1", "p2"}] : k \in 0..n}

Configs ==
    {[root_dir |-> "src", script_id |-> sid, parent_ids |-> ps, club_remotes |-> r] :
        sid \in {IdB, ScriptIdShort},
        ps \in ParentLists(MaxParents),
        r \in {NoRemotes} \cup {Some(t) : t \in Tables(MaxRemotes)}}

InitRoundTrip ==
    /\ rtIn \in Configs
    /\ rtFile = NoFile
    /\ rtOut = <<>>
    /\ disk = NoFile
    /\ prev = disk
    /\ IdleSeq
    /\ IdleConc

\* write_clasp_config(config)
RoundTripSave ==
    /\ rtFile = NoFile
    /\ rtFile' = write_clasp_config(rtIn)
    /\ UNCHANGED <<disk, rtIn, rtOut>>
    /\ UNCHANGED seqVars
    /\ UNCHANGED concVars

\* get_clasp_config() on the file just written
RoundTripLoad ==
    /\ rtFile # NoFile
    /\ rtOut = <<>>
    /\ LoadError(rtFile) = "Ok"
    /\ rtOut' = <<get_clasp_config(rtFile)>>
    /\ UNCHANGED <<disk, rtIn, rtFile>>
    /\ UNCHANGED seqVars
    /\ UNCHANGED concVars

NextRoundTrip == RoundTripSave \/ RoundTripLoad

SpecRoundTrip == InitRoundTrip /\ [][NextRoundTrip]_vars

----------------------------------------------------------------------------
(* What the documentation calls well-formed                                *)

AllAllowed(s) == \A k \in 1..Len(s) : s[k][1] \in AllowedChars

\* a non-empty string over [a-zA-Z0-9-_]
WellFormedName(s) == StrLen(s) > 0 /\ AllAllowed(s)

\* exactly 57 characters over [a-zA-Z0-9-_]
WellFormedId(s) == StrLen(s) = IdLen /\ AllAllowed(s)

\* the manifest loads and has a remote table
Initialised(d) == LoadError(d) = "Ok" /\ d.club.some

\* the remote table a fresh load of the file yields, as club_list shows it
Listed(d) == get_clasp_config(d).club_remotes.map

\* the command cmd has returned
Returned(cmd) == pc = "idle" /\ last.cmd = cmd

\* rootDir, scriptId and parentId of two files agree
SameProject(d, e) ==
    d.rootDir = e.rootDir /\ d.scriptId = e.scriptId /\ d.parentId = e.parentId

\* t1 is t0 without the entry at position pos, the others in their order
WithoutPosition(t0, t1, pos) ==
    /\ Len(t1) = Len(t0) - 1
    /\ \A i \in 1..Len(t0) :
          /\ i < pos => t1[i] = t0[i]
          /\ i > pos => t1[i - 1] = t0[i]

----------------------------------------------------------------------------
(* Push                                                                    *)

\* a push to one remote returned after its `clasp push` ran and exited
PushedOne == Returned("push") /\ ~last.all /\ Len(log) = 1

\* C1: a push to one remote of the table, once `clasp push` has exited with
\* any status and the command has returned, leaves the file equal to the
\* manifest loaded before the push (scriptId, rootDir, parentId and remote
\* table); it returns Ok if the status was zero and ClaspError otherwise.
C1_PushRestoresManifest ==
    PushedOne =>
        /\ disk.kind = "object"
        /\ SameProject(disk, prev)
        /\ disk.club = prev.club
        /\ Listed(disk) = Listed(prev)
        /\ log[1][3] => last.res = "Ok"
        /\ ~log[1][3] => last.res = "ClaspError(clasp push failed)"

\* a failed push to a remote other than the active one was undone
C1_Witness ==
    /\ PushedOne
    /\ ~log[1][3]
    /\ last.res = "ClaspError(clasp push failed)"
    /\ log[1][1] # prev.scriptId
    /\ log[1][2] = log[1][1]
    /\ disk = prev

\* C2: when clasp cannot be started, a push to one remote fails with
\* ClaspError carrying the OS detail and the file is restored all the same:
\* its scriptId is not left at the remote id swapped in.
C2_RestoredAfterSpawnFailure ==
    (Returned("push") /\ ~last.all /\ last.res = "ClaspError(os error)") =>
        /\ disk.scriptId = prev.scriptId
        /\ disk = prev

\* table order, as the ids `clasp push` was run for
IdsOf(t) == [i \in 1..Len(t) |-> t[i][2]]

\* C4: push --all on a non-empty table runs `clasp push` once per entry, in
\* table order, each time with the entry's id as the file's scriptId, and
\* the file equals the pre-push manifest when the command has returned.
C4_PushAllEveryRemote ==
    (Returned("push") /\ last.all /\ last.a = <<>>
        /\ Initialised(prev) /\ Listed(prev) # <<>>) =>
        /\ [i \in 1..Len(log) |-> log[i][1]] = IdsOf(Listed(prev))
        /\ \A i \in 1..Len(log) : log[i][2] = log[i][1]
        /\ disk = prev

----------------------------------------------------------------------------
(* Validation                                                              *)

\* C3: set(name, id) on an initialised manifest fails with InvalidRemoteName
\* for every name that is empty or has a character outside [a-zA-Z0-9-_],
\* and with InvalidRemoteId for every id that is not exactly 57 characters
\* of that alphabet; the file is not written, so no such name or id is in
\* the persisted table.
C3_SetRejectsMalformed ==
    (Returned("set") /\ Initialised(prev)) =>
        /\ ~WellFormedName(last.a) => last.res = "InvalidRemoteName" /\ disk = prev
        /\ (WellFormedName(last.a) /\ ~WellFormedId(last.b)) =>
               last.res = "InvalidRemoteId" /\ disk = prev
        /\ \A i \in 1..Len(disk.club.map) :
               (disk.club.map[i][1] = last.a) =>
                   WellFormedName(last.a) /\ WellFormedId(disk.club.map[i][2])

\* C6: init on a loadable manifest without a remote table writes the table
\* {"main": scriptId} when scriptId is exactly 57 characters of
\* [a-zA-Z0-9-_] and the empty table for every other scriptId; rootDir,
\* scriptId and parentId are written back unchanged.
C6_InitSeedsWellFormedOnly ==
    (Returned("init") /\ last.res = "Ok") =>
        /\ disk.club.some
        /\ disk.club.map = IF WellFormedId(prev.scriptId)
                           THEN << <<Main, prev.scriptId>> >>
                           ELSE <<>>
        /\ SameProject(disk, prev)

----------------------------------------------------------------------------
(* The remote table                                                        *)

\* C5: after rename(old, new) with old in the table and new not in it, a
\* fresh load shows new with the id old had, as the last entry of the table;
\* old is gone and every other entry is unchanged and in the same order.
C5_RenameMovesToEnd ==
    (Returned("rename") /\ last.res = "Ok") =>
        /\ Initialised(prev) /\ Initialised(disk)
        /\ ContainsKey(Listed(prev), last.a) /\ ~ContainsKey(Listed(prev), last.b)
        /\ ~ContainsKey(Listed(disk), last.a)
        /\ Len(Listed(disk)) = Len(Listed(prev))
        /\ Listed(disk)[Len(Listed(disk))] = <<last.b, Get(Listed(prev), last.a)>>
        /\ WithoutPosition(Listed(prev),
                           SubSeq(Listed(disk), 1, Len(Listed(disk)) - 1),
                           IndexOf(Listed(prev), last.a))
        /\ SameProject(disk, prev)

\* the first of three remotes was renamed
C5_Witness ==
    /\ Returned("rename") /\ last.res = "Ok"
    /\ Len(Listed(prev)) = 3
    /\ Listed(prev)[1][1] = last.a
    /\ Listed(disk)[3][1] = last.b
    /\ Listed(disk)[1] = Listed(prev)[2]

\* C10: on an initialised manifest, set(name, id) makes a list show name
\* with id, where name stood if it was in the table and after all entries
\* otherwise, the other entries unchanged; remove(name) makes a list omit
\* name, the remaining entries and their order unchanged; remove of a name
\* that is not in the table fails with RemoteNotFound and writes nothing.
C10_SetThenRemove ==
    /\ (Returned("set") /\ last.res = "Ok") =>
          /\ Initialised(prev) /\ Initialised(disk)
          /\ IF ContainsKey(Listed(prev), last.a)
             THEN /\ Len(Listed(disk)) = Len(Listed(prev))
                  /\ \A i \in 1..Len(Listed(prev)) :
                        Listed(disk)[i] = IF Listed(prev)[i][1] = last.a
                                          THEN <<last.a, last.b>>
                                          ELSE Listed(prev)[i]
             ELSE /\ Len(Listed(disk)) = Len(Listed(prev)) + 1
                  /\ Listed(disk)[Len(Listed(disk))] = <<last.a, last.b>>
                  /\ \A i \in 1..Len(Listed(prev)) : Listed(disk)[i] = Listed(prev)[i]
          /\ SameProject(disk, prev)
    /\ (Returned("remove") /\ last.res = "Ok") =>
          /\ Initialised(prev) /\ Initialised(disk)
          /\ ContainsKey(Listed(prev), last.a)
          /\ ~ContainsKey(Listed(disk), last.a)
          /\ WithoutPosition(Listed(prev), Listed(disk), IndexOf(Listed(prev), last.a))
          /\ SameProject(disk, prev)
    /\ (Returned("remove") /\ Initialised(prev) /\ RemoteNameOk(last.a)
            /\ ~ContainsKey(Listed(prev), last.a)) =>
          /\ last.res = "RemoteNotFound"
          /\ disk = prev

\* the first of three remotes was removed
C10_Witness ==
    /\ Returned("remove") /\ last.res = "Ok"
    /\ Len(Listed(prev)) = 3
    /\ Listed(prev)[1][1] = last.a
    /\ Listed(disk) = Tail(Listed(prev))

\* C9: once init has succeeded on a manifest, every later init fails with
\* ClubAlreadySetup and leaves the file unchanged, whatever set, remove,
\* rename, list and push commands ran in between, also when they emptied
\* the table: the table stays present from then on.
C9_InitRejectedOnceSetUp ==
    [][/\ Initialised(disk) => Initialised(disk')
       /\ (club_init /\ last'.res = "Ok") => Initialised(disk')
       /\ (club_init /\ Initialised(disk)) =>
              last'.res = "ClubAlreadySetup" /\ disk' = disk]_vars

\* init was rejected on a manifest whose seeded table had been emptied
C9_Witness ==
    /\ Returned("init") /\ last.res = "ClubAlreadySetup"
    /\ RemoteIdOk(disk.scriptId)
    /\ disk.club.some /\ disk.club.map = <<>>
    /\ disk = prev

----------------------------------------------------------------------------
(* Concurrent invocations                                                  *)

\* both processes returned Ok from set with different names, after loading
\* the same manifest, which had neither name
BothStoredFromOneLoad ==
    /\ cpc[1] = "done" /\ cpc[2] = "done"
    /\ cres[1] = "Ok" /\ cres[2] = "Ok"
    /\ cargs[1][1] # cargs[2][1]
    /\ cloaded[1] = cloaded[2]
    /\ ~ContainsKey(cloaded[1].club_remotes.map, cargs[1][1])
    /\ ~ContainsKey(cloaded[1].club_remotes.map, cargs[2][1])

\* C7: two set commands with different names that both load the manifest
\* before either saves both return success, and the file then holds one of
\* the two new entries and not the other: the first save is lost.
C7_LostUpdate ==
    BothStoredFromOneLoad =>
        /\ Initialised(disk)
        /\ ContainsKey(Listed(disk), cargs[1][1]) # ContainsKey(Listed(disk), cargs[2][1])
        /\ Len(Listed(disk)) = Len(cloaded[1].club_remotes.map) + 1

\* process 1's entry is the one that was lost
C7_Witness ==
    /\ BothStoredFromOneLoad
    /\ ContainsKey(Listed(disk), cargs[2][1])
    /\ ~ContainsKey(Listed(disk), cargs[1][1])

----------------------------------------------------------------------------
(* Round trip                                                              *)

\* C8: saving a ClaspConfig and loading the file yields an equal config:
\* same rootDir, scriptId and parentId list, the table absent iff it was
\* absent, and otherwise the same entries in the same order.
C8_RoundTrip ==
    /\ rtFile # NoFile => LoadError(rtFile) = "Ok"
    /\ rtOut # <<>> =>
          /\ rtOut[1].root_dir = rtIn.root_dir
          /\ rtOut[1].script_id = rtIn.script_id
          /\ rtOut[1].parent_ids = rtIn.parent_ids
          /\ rtOut[1].club_remotes.some = rtIn.club_remotes.some
          /\ rtOut[1].club_remotes.map = rtIn.club_remotes.map

\* a config with two parents and the table "main", "a" came back
C8_Witness ==
    /\ rtOut # <<>>
    /\ Len(rtIn.parent_ids) = 2
    /\ rtIn.parent_ids[1] # rtIn.parent_ids[2]
    /\ Len(rtIn.club_remotes.map) = 2
    /\ rtIn.club_remotes.map[1][1] = Main
    /\ rtOut[1] = rtIn

====
